---- MODULE Spec2Model ----
(***************************************************************************)
(* A model of clippy_utils/src/ty.rs: the type queries of the lint         *)
(* toolkit.  The module is a library of queries over the host compiler's   *)
(* type representation; each family of queries is modelled by a            *)
(* specification whose initial states draw the host data (an enum          *)
(* definition, a type graph, a signature, a predicate list) from bounded   *)
(* sets and whose actions apply the queries as the code computes them.     *)
(***************************************************************************)
EXTENDS Integers, Sequences, FiniteSets, TLC

VARIABLES
    adt,        \* the AdtDef handed to get_discriminant_value
    vidx,       \* the VariantIdx queried (0: no query yet; variants are 1-based here)
    discr,      \* the EnumValue returned
    tcx,        \* the host's type graph: what the TyCtxt answers for each type
    ty,         \* the type handed to the type-graph queries
    norm,       \* the outcome of is_normalizable(cx, param_env, ty)
    drop,       \* the outcome of needs_ordered_drop(cx, ty)
    size,       \* the outcome of approx_ty_size(cx, ty)
    pty,        \* the type handed to the reference-peeling helpers
    peeled,     \* what the helper applied returned
    fnty,       \* the type handed to ty_sig
    callerBounds, \* cx.param_env.caller_bounds()
    esig,       \* the Option<ExprFnSig> under query (ty_sig's result, once run) and the calls ty_sig made
    ord,        \* the argument ordinal asked of the signature (-1: none yet)
    got,        \* what input / input_with_hir returned
    traitCx,    \* the host's answers to the trait checks
    traitTy,    \* the type handed to the trait checks
    implemented, \* the outcome of the trait check applied
    primStack,  \* the types built so far, the last one handed to the primitive check
    primitive,  \* the outcome of is_recursively_primitive_type
    konst,      \* the constant handed to read_explicit_enum_value
    enumValue   \* the outcome of read_explicit_enum_value

discrVars == <<adt, vidx, discr>>
tyVars == <<tcx, ty, norm, drop, size>>
peelVars == <<pty, peeled>>
sigVars == <<fnty, callerBounds, esig, ord, got>>
traitVars == <<traitCx, traitTy, implemented>>
primVars == <<primStack, primitive>>
constVars == <<konst, enumValue>>

vars == <<adt, vidx, discr, tcx, ty, norm, drop, size, pty, peeled,
          fnty, callerBounds, esig, ord, got, traitCx, traitTy, implemented,
          primStack, primitive, konst, enumValue>>

\* Option<T>
None == [some |-> FALSE]
Some(x) == [some |-> TRUE, v |-> x]

(***************************************************************************)
(* Enum discriminants                                                       *)
(***************************************************************************)

\* Bounds of the enum definitions drawn.
MaxVariants == 3

\* The widths, in bytes, of the integer representations of the enums drawn
\* (i8/u8 and i16/u16).
ReprBytes == {1, 2}

Pow2(n) == 2 ^ n

\* u128 and i128 are held as their 16 bytes, lowest first (two's complement
\* for i128).
Fill(b, n) == [k \in 1..n |-> b]

\* u128::from(n) for a u32 n (below 2^31 here)
U128(n) == [k \in 1..16 |-> IF k > 4 THEN 0 ELSE (n \div Pow2(8 * (k - 1))) % 256]

\* x + y on 128 bits, byte by byte with carry.  A carry out of the top byte
\* does not arise: the host rejects an enum whose discriminants overflow its
\* representation.
RECURSIVE AddBytes(_, _, _, _)
AddBytes(x, y, k, carry) ==
    IF k > Len(x) THEN <<>>
    ELSE <<(x[k] + y[k] + carry) % 256>> \o AddBytes(x, y, k + 1, (x[k] + y[k] + carry) \div 256)

Add128(x, y) == AddBytes(x, y, 1, 0)

\* EnumValue
Unsigned(x) == [tag |-> "Unsigned", val |-> x]
Signed(x) == [tag |-> "Signed", val |-> x]
Panicked == [tag |-> "Panic"]

\* A slip in the addition: the Signed arm rebuilds the sum as Unsigned.
EnumValueAdd_LosesSign(self, n) ==
    IF self.tag \in {"Unsigned", "Signed"} THEN Unsigned(Add128(self.val, U128(n))) ELSE self

\* impl Add<u32> for EnumValue
EnumValueAdd(self, n) ==
    IF self.tag = "Unsigned" THEN Unsigned(Add128(self.val, U128(n)))
    ELSE IF self.tag = "Signed" THEN Signed(Add128(self.val, U128(n)))
    ELSE self

\* `bits as uN as iN`, widened to i128: the low bytes kept, the rest filled
\* with the sign.
SignExtend(bits, bytes) ==
    SubSeq(bits, 1, bytes) \o Fill(IF bits[bytes] >= 128 THEN 255 ELSE 0, 16 - bytes)

\* value.assert_bits(Size::from_bytes(n)): the scalar's data as u128, a panic
\* when the scalar is not n bytes wide.
assert_bits(c, n) == IF c.size = n THEN c.bits ELSE Panicked

\* read_explicit_enum_value with the 8-byte arm of the signed match casting
\* through u32 and i32.
read_explicit_enum_value_NarrowI64(c) ==
    IF c.ok
    THEN CASE c.kind = "Int" ->
                  CASE c.size = 1 -> Some(Signed(SignExtend(assert_bits(c, 1), 1)))
                    [] c.size = 2 -> Some(Signed(SignExtend(assert_bits(c, 2), 2)))
                    [] c.size = 4 -> Some(Signed(SignExtend(assert_bits(c, 4), 4)))
                    [] c.size = 8 -> Some(Signed(SignExtend(assert_bits(c, 8), 4)))
                    [] c.size = 16 -> Some(Signed(assert_bits(c, 16)))
                    [] OTHER -> None
           [] c.kind = "Uint" ->
                  CASE c.size = 1 -> Some(Unsigned(assert_bits(c, 1)))
                    [] c.size = 2 -> Some(Unsigned(assert_bits(c, 2)))
                    [] c.size = 4 -> Some(Unsigned(assert_bits(c, 4)))
                    [] c.size = 8 -> Some(Unsigned(assert_bits(c, 8)))
                    [] c.size = 16 -> Some(Unsigned(assert_bits(c, 16)))
                    [] OTHER -> None
           [] OTHER -> None
    ELSE None

\* A constant as tcx.const_eval_poly(id) and tcx.type_of(id) describe it:
\* [ok, kind, size, bits], ok when it evaluates to an integer scalar, bits
\* the scalar's data as u128.
read_explicit_enum_value(c) ==
    IF c.ok
    THEN CASE c.kind = "Int" ->
                  CASE c.size = 1 -> Some(Signed(SignExtend(assert_bits(c, 1), 1)))
                    [] c.size = 2 -> Some(Signed(SignExtend(assert_bits(c, 2), 2)))
                    [] c.size = 4 -> Some(Signed(SignExtend(assert_bits(c, 4), 4)))
                    [] c.size = 8 -> Some(Signed(SignExtend(assert_bits(c, 8), 8)))
                    [] c.size = 16 -> Some(Signed(assert_bits(c, 16)))
                    [] OTHER -> None
           [] c.kind = "Uint" ->
                  CASE c.size = 1 -> Some(Unsigned(assert_bits(c, 1)))
                    [] c.size = 2 -> Some(Unsigned(assert_bits(c, 2)))
                    [] c.size = 4 -> Some(Unsigned(assert_bits(c, 4)))
                    [] c.size = 8 -> Some(Unsigned(assert_bits(c, 8)))
                    [] c.size = 16 -> Some(Unsigned(assert_bits(c, 16)))
                    [] OTHER -> None
           [] OTHER -> None
    ELSE None

\* Option::unwrap
Unwrap(o) == IF o.some THEN o.v ELSE Panicked

\* VariantDiscr
Explicit(c) == [kind |-> "Explicit", c |-> c]
Relative(x) == [kind |-> "Relative", x |-> x]

get_discriminant_value(a, i) ==
    LET variant == a.variants[i] IN
    IF variant.kind = "Explicit"
    THEN Unwrap(read_explicit_enum_value(variant.c))
    ELSE LET x == variant.x
             anc == a.variants[i - x]
         IN IF anc.kind = "Explicit"
            THEN EnumValueAdd(Unwrap(read_explicit_enum_value(anc.c)), x)
            ELSE Unsigned(U128(x))

\* The width and signedness of the enum's integer representation.
ReprTag(a) == IF a.signed THEN "Signed" ELSE "Unsigned"
ReprMax(a) == IF a.signed THEN Pow2(8 * a.bytes - 1) - 1 ELSE Pow2(8 * a.bytes) - 1

\* The bit patterns drawn for an explicit discriminant of a given width:
\* zero, one, the largest signed value, the smallest signed value, all ones.
ExplicitBits(bytes) ==
    {0, 1, Pow2(8 * bytes - 1) - 1, Pow2(8 * bytes - 1), Pow2(8 * bytes) - 1}

\* What a variant declares: no discriminant, or an explicit bit pattern.
Implicit == [explicit |-> FALSE]
Declared(bits) == [explicit |-> TRUE, bits |-> bits]
Decls(bytes) == {Implicit} \cup {Declared(b) : b \in ExplicitBits(bytes)}

\* The constant the host evaluates for an explicit discriminant: an integer
\* scalar of the representation's type.
DiscrConst(signed, bytes, bits) ==
    [ok |-> TRUE, kind |-> IF signed THEN "Int" ELSE "Uint", size |-> bytes, bits |-> U128(bits)]

\* The index of the variant a variant without a discriminant counts from: the
\* last explicit one before it, or the first variant.
LastExplicit(decls, i) ==
    LET es == {j \in 1..(i - 1) : decls[j].explicit} IN
    IF es = {} THEN 1 ELSE CHOOSE j \in es : \A k \in es : k <= j

\* The VariantDiscr list the host builds for a declaration list.
VariantDiscrs(signed, bytes, decls) ==
    [i \in 1..Len(decls) |->
        IF decls[i].explicit
        THEN Explicit(DiscrConst(signed, bytes, decls[i].bits))
        ELSE Relative(i - LastExplicit(decls, i))]

AdtDef(signed, bytes, decls) ==
    [signed |-> signed, bytes |-> bytes, variants |-> VariantDiscrs(signed, bytes, decls)]

\* The integer a 128-bit value stands for (of small magnitude here): the
\* bytes weighed from the lowest, a negative i128 counted down from -1.
RECURSIVE Weigh(_, _, _)
Weigh(bytes, k, off) ==
    IF k > Len(bytes) THEN 0 ELSE (bytes[k] - off) + 256 * Weigh(bytes, k + 1, off)

IntOf(e) ==
    IF e.tag = "Signed" /\ e.val[16] >= 128
    THEN Weigh(e.val, 1, 255) - 1
    ELSE Weigh(e.val, 1, 0)

\* The value of an explicit discriminant in the enum's representation.
ExplicitValue(a, c) ==
    IF a.signed THEN IntOf(Signed(SignExtend(c.bits, c.size))) ELSE IntOf(Unsigned(c.bits))

\* The host rejects an enum whose implicit discriminants overflow the
\* representation.
NoDiscrOverflow(a) ==
    \A i \in 1..Len(a.variants) :
        LET d == a.variants[i] IN
        d.kind = "Relative" =>
            LET anc == a.variants[i - d.x] IN
            IF anc.kind = "Explicit"
            THEN ExplicitValue(a, anc.c) + d.x <= ReprMax(a)
            ELSE d.x <= ReprMax(a)

DeclLists(bytes) ==
    UNION {[1..n -> Decls(bytes)] : n \in 1..MaxVariants}

AdtDefs ==
    {a \in UNION {{AdtDef(s, b, ds) : s \in BOOLEAN, ds \in DeclLists(b)} : b \in ReprBytes} :
        NoDiscrOverflow(a)}

NoValue == [tag |-> "NoValue"]

DiscrInit ==
    /\ adt \in AdtDefs
    /\ vidx = 0
    /\ discr = NoValue

\* get_discriminant_value(tcx, adt, i)
GetDiscriminantValue ==
    /\ vidx = 0
    /\ \E i \in 1..Len(adt.variants) :
          /\ vidx' = i
          /\ discr' = get_discriminant_value(adt, i)
    /\ UNCHANGED adt

\* The constants handed to read_explicit_enum_value.  A scalar is 1 to 16
\* bytes wide (3 stands for the widths no integer type has), its data zero
\* above its width; the bytes drawn are a lowest byte, a top byte and one
\* filler for the bytes between.
ScalarSizes == {1, 2, 3, 4, 8, 16}
ByteValues == {0, 1, 127, 128, 255}
ScalarBits(width) ==
    {[k \in 1..16 |-> IF k > width THEN 0
                      ELSE IF k = width THEN top
                      ELSE IF k = 1 THEN low
                      ELSE mid] :
        low \in ByteValues, top \in ByteValues, mid \in {0, 255}}

Consts ==
    UNION {{[ok |-> TRUE, kind |-> k, size |-> n, bits |-> b] : b \in ScalarBits(n)} :
                k \in {"Int", "Uint"}, n \in ScalarSizes}
    \cup {[ok |-> TRUE, kind |-> "Bool", size |-> 1, bits |-> b] : b \in {U128(0), U128(1)}}
    \cup {[ok |-> TRUE, kind |-> "Char", size |-> 4, bits |-> U128(n)] : n \in {0, 97}}
    \cup {[ok |-> FALSE, kind |-> k, size |-> 0, bits |-> U128(0)] : k \in {"Int", "Uint", "Adt"}}

NotRead == [done |-> FALSE]

ConstInit == konst \in Consts /\ enumValue = NotRead

ReadExplicitEnumValue ==
    /\ ~enumValue.done
    /\ enumValue' = [done |-> TRUE, res |-> read_explicit_enum_value(konst)]
    /\ UNCHANGED konst



(***************************************************************************)
(* The type graph                                                          *)
(*                                                                         *)
(* A type is a handle 1..NTypes; tcx[t] holds what the host answers about  *)
(* it: its kind, the field types of each variant (an Adt), its generic     *)
(* type arguments (Adt substs, tuple elements, array or reference          *)
(* pointee), whether normalization and layout succeed, and the drop        *)
(* facts.                                                                  *)
(***************************************************************************)

\* The types of a graph.
Types(cx) == DOMAIN cx

\* Every field type of every variant, in declaration order:
\* def.variants().iter() then variant.fields.iter(); AdtDef::all_fields.
RECURSIVE Flatten(_)
Flatten(vs) == IF vs = <<>> THEN <<>> ELSE Head(vs) \o Flatten(Tail(vs))

all_fields(cx, t) == Flatten(cx[t].variants)

\* ty.walk(): the type itself, then its generic type arguments, depth first
\* in order, each type once.
RECURSIVE WalkFrom(_, _, _)
WalkFrom(cx, stack, visited) ==
    IF stack = <<>> THEN <<>>
    ELSE LET t == Head(stack) IN
         IF t \in visited
         THEN WalkFrom(cx, Tail(stack), visited)
         ELSE <<t>> \o WalkFrom(cx, cx[t].args \o Tail(stack), visited \cup {t})

walk(cx, t) == WalkFrom(cx, <<t>>, {})

\* The deepest call stack a traversal is followed to; a traversal that would
\* go deeper is reported as diverged.
MaxDepth == 6

(***************************************************************************)
(* is_normalizable                                                         *)
(***************************************************************************)

\* The state of one top-level call: the cache (absent / false / true per
\* type), the types expanded in order (those that passed the cache lookup),
\* the call stack, the types read from the cache while still in progress,
\* and whether the traversal went deeper than MaxDepth.
NormStart(cx) ==
    [cache |-> [t \in Types(cx) |-> "absent"],
     expanded |-> <<>>,
     stack |-> <<>>,
     reentered |-> {},
     diverged |-> FALSE]

RECURSIVE is_normalizable_helper(_, _, _)
RECURSIVE AllNormalizable(_, _, _, _)

\* iter.all(|t| t == skip || is_normalizable_helper(.., t, cache)), with
\* all()'s short circuit; skip is 0 for the fields of an Adt.
AllNormalizable(cx, ts, skip, st) ==
    IF ts = <<>> THEN [res |-> TRUE, st |-> st]
    ELSE IF Head(ts) = skip THEN AllNormalizable(cx, Tail(ts), skip, st)
    ELSE LET r == is_normalizable_helper(cx, Head(ts), st) IN
         IF r.res THEN AllNormalizable(cx, Tail(ts), skip, r.st)
         ELSE [res |-> FALSE, st |-> r.st]

\* The helper without `cache.insert(ty, false)` before the children.
is_normalizable_helper_NoPlaceholder(cx, t, st) ==
    IF st.diverged THEN [res |-> FALSE, st |-> st]
    ELSE IF st.cache[t] # "absent"
    THEN [res |-> st.cache[t] = "true", st |-> st]
    ELSE IF Len(st.stack) >= MaxDepth
    THEN [res |-> FALSE, st |-> [st EXCEPT !.diverged = TRUE]]
    ELSE LET st1 == [st EXCEPT !.expanded = Append(@, t),
                               !.stack = Append(@, t)]
             r == IF cx[t].normOk
                  THEN IF cx[t].kind = "Adt"
                       THEN AllNormalizable(cx, all_fields(cx, t), 0, st1)
                       ELSE AllNormalizable(cx, walk(cx, t), t, st1)
                  ELSE [res |-> FALSE, st |-> st1]
         IN [res |-> r.res,
             st |-> [r.st EXCEPT !.cache[t] = IF r.res THEN "true" ELSE "false",
                                 !.stack = st.stack]]

\* The helper with a true placeholder: `cache.insert(ty, true)` before the
\* children.
is_normalizable_helper_TruePlaceholder(cx, t, st) ==
    IF st.diverged THEN [res |-> FALSE, st |-> st]
    ELSE IF st.cache[t] # "absent"
    THEN [res |-> st.cache[t] = "true",
          st |-> IF \E k \in 1..Len(st.stack) : st.stack[k] = t
                 THEN [st EXCEPT !.reentered = @ \cup {t}]
                 ELSE st]
    ELSE IF Len(st.stack) >= MaxDepth
    THEN [res |-> FALSE, st |-> [st EXCEPT !.diverged = TRUE]]
    ELSE LET st1 == [st EXCEPT !.cache[t] = "true",
                               !.expanded = Append(@, t),
                               !.stack = Append(@, t)]
             r == IF cx[t].normOk
                  THEN IF cx[t].kind = "Adt"
                       THEN AllNormalizable(cx, all_fields(cx, t), 0, st1)
                       ELSE AllNormalizable(cx, walk(cx, t), t, st1)
                  ELSE [res |-> FALSE, st |-> st1]
         IN [res |-> r.res,
             st |-> [r.st EXCEPT !.cache[t] = IF r.res THEN "true" ELSE "false",
                                 !.stack = st.stack]]

is_normalizable_helper(cx, t, st) ==
    IF st.diverged THEN [res |-> FALSE, st |-> st]
    ELSE IF st.cache[t] # "absent"
    THEN [res |-> st.cache[t] = "true",
          st |-> IF \E k \in 1..Len(st.stack) : st.stack[k] = t
                 THEN [st EXCEPT !.reentered = @ \cup {t}]
                 ELSE st]
    ELSE IF Len(st.stack) >= MaxDepth
    THEN [res |-> FALSE, st |-> [st EXCEPT !.diverged = TRUE]]
    ELSE LET st1 == [st EXCEPT !.cache[t] = "false",
                               !.expanded = Append(@, t),
                               !.stack = Append(@, t)]
             r == IF cx[t].normOk
                  THEN IF cx[t].kind = "Adt"
                       THEN AllNormalizable(cx, all_fields(cx, t), 0, st1)
                       ELSE AllNormalizable(cx, walk(cx, t), t, st1)
                  ELSE [res |-> FALSE, st |-> st1]
         IN [res |-> r.res,
             st |-> [r.st EXCEPT !.cache[t] = IF r.res THEN "true" ELSE "false",
                                 !.stack = st.stack]]

\* The probe asking the host about the type alone, without the descent into
\* its fields and arguments.
is_normalizable_NoDescent(cx, t) ==
    [res |-> cx[t].normOk,
     st |-> [NormStart(cx) EXCEPT !.cache[t] = IF cx[t].normOk THEN "true" ELSE "false",
                                  !.expanded = <<t>>]]

is_normalizable(cx, t) == is_normalizable_helper(cx, t, NormStart(cx))


(***************************************************************************)
(* needs_ordered_drop                                                      *)
(***************************************************************************)

\* The state of one top-level call: the seen set, the types whose body ran
\* (seen.insert returned true) in order, the call stack, the types met
\* again, and whether the traversal went deeper than MaxDepth.
DropStart ==
    [seen |-> {}, expanded |-> <<>>, stack |-> <<>>, revisited |-> {}, diverged |-> FALSE]

\* The std types that implement Drop only to free memory: Box, HashSet, Rc,
\* Arc, CString, rc::Weak, sync::Weak.  All of them are Adts.
IsAllocWrapper(cx, t) == cx[t].kind = "Adt" /\ cx[t].wrapper

RECURSIVE needs_ordered_drop_inner(_, _, _)
RECURSIVE AnyNeedsOrderedDrop(_, _, _)

\* iter.any(|t| needs_ordered_drop_inner(cx, t, seen)), with any()'s short
\* circuit.
AnyNeedsOrderedDrop(cx, ts, st) ==
    IF ts = <<>> THEN [res |-> FALSE, st |-> st]
    ELSE LET r == needs_ordered_drop_inner(cx, Head(ts), st) IN
         IF r.res THEN r
         ELSE AnyNeedsOrderedDrop(cx, Tail(ts), r.st)

\* The body of needs_ordered_drop_inner after the seen check.
\* The body deciding an allocation-only wrapper from its fields.
DropBody_WrapperFields(cx, t, st) ==
    IF ~cx[t].sigDrop
    THEN [res |-> FALSE, st |-> st]
    ELSE IF IsAllocWrapper(cx, t)
    THEN AnyNeedsOrderedDrop(cx, all_fields(cx, t), st)
    ELSE IF ~cx[t].implDrop
    THEN CASE cx[t].kind = "Tuple" -> AnyNeedsOrderedDrop(cx, cx[t].args, st)
           [] cx[t].kind = "Array" -> needs_ordered_drop_inner(cx, cx[t].args[1], st)
           [] cx[t].kind = "Adt" -> AnyNeedsOrderedDrop(cx, all_fields(cx, t), st)
           [] OTHER -> [res |-> TRUE, st |-> st]
    ELSE [res |-> TRUE, st |-> st]

DropBody(cx, t, st) ==
    IF ~cx[t].sigDrop
    THEN [res |-> FALSE, st |-> st]
    ELSE IF IsAllocWrapper(cx, t)
    THEN IF cx[t].kind = "Adt"
         THEN AnyNeedsOrderedDrop(cx, cx[t].args, st)
         ELSE [res |-> TRUE, st |-> st]
    ELSE IF ~cx[t].implDrop
    THEN CASE cx[t].kind = "Tuple" -> AnyNeedsOrderedDrop(cx, cx[t].args, st)
           [] cx[t].kind = "Array" -> needs_ordered_drop_inner(cx, cx[t].args[1], st)
           [] cx[t].kind = "Adt" -> AnyNeedsOrderedDrop(cx, all_fields(cx, t), st)
           [] OTHER -> [res |-> TRUE, st |-> st]
    ELSE [res |-> TRUE, st |-> st]

\* The traversal taking a revisited type for significant.
needs_ordered_drop_inner_RevisitSignificant(cx, t, st) ==
    IF st.diverged THEN [res |-> FALSE, st |-> st]
    ELSE IF t \in st.seen
    THEN [res |-> TRUE, st |-> [st EXCEPT !.revisited = @ \cup {t}]]
    ELSE IF Len(st.stack) >= MaxDepth
    THEN [res |-> FALSE, st |-> [st EXCEPT !.diverged = TRUE]]
    ELSE LET st1 == [st EXCEPT !.seen = @ \cup {t},
                               !.expanded = Append(@, t),
                               !.stack = Append(@, t)]
             r == DropBody(cx, t, st1)
         IN [res |-> r.res, st |-> [r.st EXCEPT !.stack = st.stack]]

needs_ordered_drop_inner(cx, t, st) ==
    IF st.diverged THEN [res |-> FALSE, st |-> st]
    ELSE IF t \in st.seen
    THEN [res |-> FALSE, st |-> [st EXCEPT !.revisited = @ \cup {t}]]
    ELSE IF Len(st.stack) >= MaxDepth
    THEN [res |-> FALSE, st |-> [st EXCEPT !.diverged = TRUE]]
    ELSE LET st1 == [st EXCEPT !.seen = @ \cup {t},
                               !.expanded = Append(@, t),
                               !.stack = Append(@, t)]
             r == DropBody(cx, t, st1)
         IN [res |-> r.res, st |-> [r.st EXCEPT !.stack = st.stack]]

needs_ordered_drop(cx, t) == needs_ordered_drop_inner(cx, t, DropStart)

(***************************************************************************)
(* approx_ty_size                                                          *)
(***************************************************************************)

\* The record of one top-level call: the calls of approx_ty_size that
\* returned (the type and the size returned, in order of return), the types
\* handed to cx.layout_of in order, the call stack, and whether the
\* recursion went deeper than MaxDepth.
SizeStart == [calls |-> <<>>, layoutOf |-> <<>>, stack |-> <<>>, diverged |-> FALSE]

Max(a, b) == IF a >= b THEN a ELSE b

RECURSIVE approx_ty_size_rec(_, _, _)
RECURSIVE SumSizes(_, _, _)
RECURSIVE MaxSizes(_, _, _)
RECURSIVE SumOfVariantSums(_, _, _)
RECURSIVE MaxOfVariantSums(_, _, _)
RECURSIVE MaxOfVariantMaxes(_, _, _)

\* ts.map(|t| approx_ty_size(cx, t)).sum()
SumSizes(cx, ts, st) ==
    IF ts = <<>> THEN [size |-> 0, st |-> st]
    ELSE LET h == approx_ty_size_rec(cx, Head(ts), st)
             r == SumSizes(cx, Tail(ts), h.st)
         IN [size |-> h.size + r.size, st |-> r.st]

\* ts.map(|t| approx_ty_size(cx, t)).max().unwrap_or_default()
MaxSizes(cx, ts, st) ==
    IF ts = <<>> THEN [size |-> 0, st |-> st]
    ELSE LET h == approx_ty_size_rec(cx, Head(ts), st)
             r == MaxSizes(cx, Tail(ts), h.st)
         IN [size |-> Max(h.size, r.size), st |-> r.st]

\* variants.map(|v| sum of the fields).sum()
SumOfVariantSums(cx, vs, st) ==
    IF vs = <<>> THEN [size |-> 0, st |-> st]
    ELSE LET h == SumSizes(cx, Head(vs), st)
             r == SumOfVariantSums(cx, Tail(vs), h.st)
         IN [size |-> h.size + r.size, st |-> r.st]

\* The enum arm written like the union arm: the largest field of any variant.
MaxOfVariantSums_FieldMax(cx, vs, st) == MaxOfVariantMaxes(cx, vs, st)

\* variants.map(|v| sum of the fields).max().unwrap_or_default()
MaxOfVariantSums(cx, vs, st) ==
    IF vs = <<>> THEN [size |-> 0, st |-> st]
    ELSE LET h == SumSizes(cx, Head(vs), st)
             r == MaxOfVariantSums(cx, Tail(vs), h.st)
         IN [size |-> Max(h.size, r.size), st |-> r.st]

\* variants.map(|v| max of the fields, or 0).max().unwrap_or_default()
MaxOfVariantMaxes(cx, vs, st) ==
    IF vs = <<>> THEN [size |-> 0, st |-> st]
    ELSE LET h == MaxSizes(cx, Head(vs), st)
             r == MaxOfVariantMaxes(cx, Tail(vs), h.st)
         IN [size |-> Max(h.size, r.size), st |-> r.st]

\* The match on (cx.layout_of(ty), ty.kind()) once the layout failed.
SizeByStructure(cx, t, st) ==
    CASE cx[t].kind = "Tuple" -> SumSizes(cx, cx[t].args, st)
      [] cx[t].kind = "Array" ->
            LET e == approx_ty_size_rec(cx, cx[t].args[1], st) IN
            [size |-> cx[t].len * e.size, st |-> e.st]
      [] cx[t].kind = "Adt" /\ cx[t].adt = "struct" -> SumOfVariantSums(cx, cx[t].variants, st)
      [] cx[t].kind = "Adt" /\ cx[t].adt = "enum" -> MaxOfVariantSums(cx, cx[t].variants, st)
      [] cx[t].kind = "Adt" /\ cx[t].adt = "union" -> MaxOfVariantMaxes(cx, cx[t].variants, st)
      [] OTHER -> [size |-> 0, st |-> st]

\* The recursion without the is_normalizable guard: layout_of is asked
\* about every type.
approx_ty_size_rec_Unguarded(cx, t, st) ==
    IF st.diverged THEN [size |-> 0, st |-> st]
    ELSE IF Len(st.stack) >= MaxDepth
    THEN [size |-> 0, st |-> [st EXCEPT !.diverged = TRUE]]
    ELSE LET st1 == [st EXCEPT !.stack = Append(@, t), !.layoutOf = Append(@, t)]
             r == IF cx[t].layout.some
                  THEN [size |-> cx[t].layout.v, st |-> st1]
                  ELSE SizeByStructure(cx, t, st1)
         IN [size |-> r.size,
             st |-> [r.st EXCEPT !.stack = st.stack,
                                 !.calls = Append(@, [ty |-> t, size |-> r.size])]]

approx_ty_size_rec(cx, t, st) ==
    IF st.diverged THEN [size |-> 0, st |-> st]
    ELSE IF Len(st.stack) >= MaxDepth
    THEN [size |-> 0, st |-> [st EXCEPT !.diverged = TRUE]]
    ELSE LET st1 == [st EXCEPT !.stack = Append(@, t)] IN
         IF ~is_normalizable(cx, t).res
         THEN [size |-> 0,
               st |-> [st EXCEPT !.calls = Append(@, [ty |-> t, size |-> 0])]]
         ELSE LET st2 == [st1 EXCEPT !.layoutOf = Append(@, t)]
                  r == IF cx[t].layout.some
                       THEN [size |-> cx[t].layout.v, st |-> st2]
                       ELSE SizeByStructure(cx, t, st2)
              IN [size |-> r.size,
                  st |-> [r.st EXCEPT !.stack = st.stack,
                                      !.calls = Append(@, [ty |-> t, size |-> r.size])]]

approx_ty_size(cx, t) == approx_ty_size_rec(cx, t, SizeStart)


(***************************************************************************)
(* The type graphs drawn                                                   *)
(*                                                                         *)
(* The host declares the types one at a time: type 1 is the type queried,  *)
(* and every later type is one that an earlier type refers to, so a graph  *)
(* holds only types the queries can reach, numbered in the order they are  *)
(* first referred to.  The queries run once every type referred to is      *)
(* declared.                                                               *)
(***************************************************************************)

\* The most types of a graph, and the most field and generic argument
\* entries of the whole graph.
NTypes == 3
MaxEdges == 2

\* What the host answers for one type.
TyS(kind, adtKind, variants, args, len, normOk, layout, sigDrop, wrapper, implDrop) ==
    [kind |-> kind, adt |-> adtKind, variants |-> variants, args |-> args, len |-> len,
     normOk |-> normOk, layout |-> layout,
     sigDrop |-> sigDrop, wrapper |-> wrapper, implDrop |-> implDrop]

\* The sequences of j types.
TySeqs(j) == [1..j -> 1..NTypes]

\* The ways to cut a field list into `n` variants, empty ones included.
RECURSIVE Cuts(_, _)
Cuts(fs, n) ==
    IF n = 0 THEN (IF fs = <<>> THEN {<<>>} ELSE {})
    ELSE IF n = 1 THEN {<<fs>>}
    ELSE UNION {{<<SubSeq(fs, 1, k)>> \o rest : rest \in Cuts(SubSeq(fs, k + 1, Len(fs)), n - 1)} :
                  k \in 0..Len(fs)}

\* The types a type refers to, and the number of its entries.
RefsOf(r) ==
    {r.args[i] : i \in 1..Len(r.args)}
    \cup {Flatten(r.variants)[i] : i \in 1..Len(Flatten(r.variants))}
Entries(r) == Len(r.args) + Len(Flatten(r.variants))

RECURSIVE EntriesUsed(_)
EntriesUsed(cx) == IF cx = <<>> THEN 0 ELSE Entries(Head(cx)) + EntriesUsed(Tail(cx))

\* The types referred to so far: the type queried and what the declared
\* types refer to.
Referenced(cx) == {1} \cup UNION {RefsOf(cx[t]) : t \in DOMAIN cx}

\* Every type referred to is declared.
Closed(cx) == cx # <<>> /\ Referenced(cx) \subseteq DOMAIN cx

\* A type is a finite tree: no type is its own generic argument, directly or
\* through others.
RECURSIVE ArgReach(_, _, _)
ArgReach(cx, from, n) ==
    IF n = 0 THEN from
    ELSE ArgReach(cx,
                  from \cup UNION {{cx[t].args[i] : i \in 1..Len(cx[t].args)} :
                                      t \in from \cap DOMAIN cx},
                  n - 1)

ArgsAcyclic(cx) ==
    \A t \in DOMAIN cx :
        t \notin ArgReach(cx, {cx[t].args[i] : i \in 1..Len(cx[t].args)}, NTypes)

NoLayout == None

\* Answers for the normalizability probe: structs (fields, and generic
\* arguments that a walk passes through) and tuples, normalization
\* succeeding or failing per type; every type has a significant drop and no
\* Drop impl, so that the drop traversal follows the same structure.
NormTyS ==
    [j \in 0..MaxEdges |->
        UNION {{TyS("Adt", "struct", <<fs>>, as, 0, n, NoLayout, TRUE, FALSE, FALSE) :
                    fs \in TySeqs(j - i), as \in TySeqs(i), n \in BOOLEAN} : i \in 0..j}
        \cup {TyS("Tuple", "none", <<>>, as, 0, n, NoLayout, TRUE, FALSE, FALSE) :
                    as \in TySeqs(j), n \in BOOLEAN}]

\* Answers for the drop-order query: allocation-only wrappers (generic
\* arguments, and fields of their own), other structs with or without a Drop
\* impl (fields), tuples, arrays, and types with no structure; a significant
\* drop or none per type.
DropTyS ==
    [j \in 0..MaxEdges |->
        UNION {{TyS("Adt", "struct", <<fs>>, as, 0, TRUE, NoLayout, sd, TRUE, TRUE) :
                    fs \in TySeqs(j - i), as \in TySeqs(i), sd \in BOOLEAN} : i \in 0..j}
        \cup {TyS("Adt", "struct", <<fs>>, <<>>, 0, TRUE, NoLayout, sd, FALSE, d) :
                    fs \in TySeqs(j), sd \in BOOLEAN, d \in BOOLEAN}
        \cup {TyS("Tuple", "none", <<>>, as, 0, TRUE, NoLayout, sd, FALSE, FALSE) :
                    as \in TySeqs(j), sd \in BOOLEAN}
        \cup (IF j = 1
              THEN {TyS("Array", "none", <<>>, as, 2, TRUE, NoLayout, sd, FALSE, FALSE) :
                        as \in TySeqs(1), sd \in BOOLEAN}
              ELSE {})
        \cup (IF j = 0
              THEN {TyS("Other", "none", <<>>, <<>>, 0, TRUE, NoLayout, sd, FALSE, FALSE) :
                        sd \in BOOLEAN}
              ELSE {})]

\* The most variants of an enum of the size graphs, and the layout sizes and
\* array lengths the host answers there.
MaxAdtVariants == 2
LayoutSizes == {1, 2}
ArrayLens == {0, 2}

\* What the host answers on normalization and layout: a type that does not
\* normalize has no layout.
SizeFacts ==
    {[normOk |-> FALSE, layout |-> NoLayout], [normOk |-> TRUE, layout |-> NoLayout]}
    \cup {[normOk |-> TRUE, layout |-> Some(z)] : z \in LayoutSizes}

\* Answers for the size estimate: structs and unions (one variant) and
\* enums (one variant or more) with fields, the enum with no variants,
\* tuples with elements, arrays (a length, 0 when it cannot be evaluated)
\* and types with no structure; normalization and layout succeeding or
\* failing per type.
SizeTyS ==
    [j \in 0..MaxEdges |->
        IF j = 0
        THEN {TyS("Other", "none", <<>>, <<>>, 0, f.normOk, f.layout, FALSE, FALSE, FALSE) :
                    f \in SizeFacts}
             \cup {TyS("Adt", "enum", <<>>, <<>>, 0, TRUE, NoLayout, FALSE, FALSE, FALSE)}
        ELSE UNION {{TyS("Adt", k, <<fs>>, <<>>, 0, f.normOk, f.layout, FALSE, FALSE, FALSE) :
                        fs \in TySeqs(j), f \in SizeFacts} : k \in {"struct", "union"}}
             \cup UNION {UNION {{TyS("Adt", "enum", vs, <<>>, 0, f.normOk, f.layout, FALSE, FALSE, FALSE) :
                                    vs \in Cuts(fs, n), f \in SizeFacts} :
                                fs \in TySeqs(j)} : n \in 1..MaxAdtVariants}
             \cup {TyS("Tuple", "none", <<>>, as, 0, f.normOk, f.layout, FALSE, FALSE, FALSE) :
                        as \in TySeqs(j), f \in SizeFacts}
             \cup (IF j = 1
                   THEN {TyS("Array", "none", <<>>, as, n, f.normOk, f.layout, FALSE, FALSE, FALSE) :
                            as \in TySeqs(1), n \in ArrayLens, f \in SizeFacts}
                   ELSE {})]

AllOf(S) == UNION {S[j] : j \in DOMAIN S}
SizeTySAll == AllOf(SizeTyS)
NormTySAll == AllOf(NormTyS)
DropTySAll == AllOf(DropTyS)

NoOutcome == [done |-> FALSE]

TyInit ==
    /\ tcx = <<>>
    /\ ty = 1
    /\ norm = NoOutcome /\ drop = NoOutcome /\ size = NoOutcome

NoQueryYet == norm = NoOutcome /\ drop = NoOutcome /\ size = NoOutcome

\* The host declares the next type, with answers drawn from S; All is every
\* answer of S.
DeclareType(S, All) ==
    /\ NoQueryYet
    /\ Len(tcx) < NTypes
    /\ Len(tcx) + 1 \in Referenced(tcx)
    /\ \A t \in DOMAIN tcx : tcx[t] \in All
    /\ \E j \in 0..(MaxEdges - EntriesUsed(tcx)) :
          \E r \in S[j] :
              /\ ArgsAcyclic(Append(tcx, r))
              /\ tcx' = Append(tcx, r)
    /\ UNCHANGED <<ty, norm, drop, size>>

DeclareNormType == DeclareType(NormTyS, NormTySAll)
DeclareDropType == DeclareType(DropTyS, DropTySAll)

\* is_normalizable(cx, param_env, ty)
IsNormalizable ==
    /\ Closed(tcx)
    /\ norm = NoOutcome
    /\ LET r == is_normalizable(tcx, ty) IN
       norm' = [done |-> TRUE, res |-> r.res, cache |-> r.st.cache,
                expanded |-> r.st.expanded, reentered |-> r.st.reentered,
                diverged |-> r.st.diverged]
    /\ UNCHANGED <<tcx, ty, drop, size>>

\* needs_ordered_drop(cx, ty)
NeedsOrderedDrop ==
    /\ Closed(tcx)
    /\ drop = NoOutcome
    /\ LET r == needs_ordered_drop(tcx, ty) IN
       drop' = [done |-> TRUE, res |-> r.res, seen |-> r.st.seen,
                expanded |-> r.st.expanded, revisited |-> r.st.revisited,
                diverged |-> r.st.diverged]
    /\ UNCHANGED <<tcx, ty, norm, size>>

DeclareSizeType == DeclareType(SizeTyS, SizeTySAll)

\* approx_ty_size(cx, ty)
ApproxTySize ==
    /\ Closed(tcx)
    /\ size = NoOutcome
    /\ LET r == approx_ty_size(tcx, ty) IN
       size' = [done |-> TRUE, size |-> r.size, calls |-> r.st.calls,
                layoutOf |-> r.st.layoutOf, diverged |-> r.st.diverged]
    /\ UNCHANGED <<tcx, ty, norm, drop>>




(***************************************************************************)
(* Peeling references                                                      *)
(*                                                                         *)
(* A type is the list of its pointer layers, outermost first, around a     *)
(* type that is neither a reference nor a raw pointer (the empty list).    *)
(***************************************************************************)

\* The most pointer layers of a type drawn.
MaxLayers == 3

RefLayers == {"RefMut", "RefNot"}
RawPtrLayers == {"PtrMut", "PtrConst"}
Layers == RefLayers \cup RawPtrLayers

PeelTys == UNION {[1..n -> Layers] : n \in 0..MaxLayers}

\* ty.kind() is ty::Ref(..)
IsRef(t) == t # <<>> /\ Head(t) \in RefLayers

\* fn peel of peel_mid_ty_refs
RECURSIVE peel(_, _)
peel(t, count) ==
    IF IsRef(t) THEN peel(Tail(t), count + 1)
    ELSE [ty |-> t, count |-> count]

peel_mid_ty_refs(t) == peel(t, 0)

\* fn f of peel_mid_ty_refs_is_mutable, with the Mut arm taking the layer's
\* own mutability: the innermost reference decides.
RECURSIVE f_InnermostDecides(_, _, _)
f_InnermostDecides(t, count, mutability) ==
    IF t # <<>> /\ Head(t) = "RefMut" THEN f_InnermostDecides(Tail(t), count + 1, "Mut")
    ELSE IF t # <<>> /\ Head(t) = "RefNot" THEN f_InnermostDecides(Tail(t), count + 1, "Not")
    ELSE [ty |-> t, count |-> count, mutability |-> mutability]

\* fn f of peel_mid_ty_refs_is_mutable
RECURSIVE f(_, _, _)
f(t, count, mutability) ==
    IF t # <<>> /\ Head(t) = "RefMut" THEN f(Tail(t), count + 1, mutability)
    ELSE IF t # <<>> /\ Head(t) = "RefNot" THEN f(Tail(t), count + 1, "Not")
    ELSE [ty |-> t, count |-> count, mutability |-> mutability]

peel_mid_ty_refs_is_mutable(t) == f(t, 0, "Mut")

\* fn inner of walk_ptrs_ty_depth, peeling raw pointers too, as its doc
\* comment words it.
RECURSIVE inner_PeelsRawPtrs(_, _)
inner_PeelsRawPtrs(t, depth) ==
    IF t # <<>> THEN inner_PeelsRawPtrs(Tail(t), depth + 1)
    ELSE [ty |-> t, count |-> depth]

\* fn inner of walk_ptrs_ty_depth
RECURSIVE inner(_, _)
inner(t, depth) ==
    IF IsRef(t) THEN inner(Tail(t), depth + 1)
    ELSE [ty |-> t, count |-> depth]

walk_ptrs_ty_depth(t) == inner(t, 0)

NotPeeled == [fn |-> "none"]

PeelInit ==
    /\ pty \in PeelTys
    /\ peeled = NotPeeled

PeelMidTyRefs ==
    /\ peeled = NotPeeled
    /\ LET r == peel_mid_ty_refs(pty) IN
       peeled' = [fn |-> "peel_mid_ty_refs", ty |-> r.ty, count |-> r.count]
    /\ UNCHANGED pty

PeelMidTyRefsIsMutable ==
    /\ peeled = NotPeeled
    /\ LET r == peel_mid_ty_refs_is_mutable(pty) IN
       peeled' = [fn |-> "peel_mid_ty_refs_is_mutable", ty |-> r.ty, count |-> r.count,
                  mutability |-> r.mutability]
    /\ UNCHANGED pty

WalkPtrsTyDepth ==
    /\ peeled = NotPeeled
    /\ LET r == walk_ptrs_ty_depth(pty) IN
       peeled' = [fn |-> "walk_ptrs_ty_depth", ty |-> r.ty, count |-> r.count]
    /\ UNCHANGED pty

(***************************************************************************)
(* Function signatures                                                     *)
(***************************************************************************)

\* Types of the signature queries.
Prim(n) == [kind |-> "Prim", name |-> n]
Tuple(ts) == [kind |-> "Tuple", elems |-> ts]

\* FnSig
FnSig(inputs, output, variadic) ==
    [inputs |-> inputs, output |-> output, c_variadic |-> variadic]

\* ExprFnSig
SigV(sig, id) == [var |-> "Sig", sig |-> sig, id |-> id]
ClosureV(decl, sig) == [var |-> "Closure", decl |-> decl, sig |-> sig]
TraitV(inputs, output, id) == [var |-> "Trait", inputs |-> inputs, output |-> output, id |-> id]

\* slice[i], 0-based: a panic out of range.
Index(q, i) == IF i < Len(q) THEN q[i + 1] ELSE Panicked

\* slice.get(i), 0-based.
Get(q, i) == IF i < Len(q) THEN Some(q[i + 1]) ELSE None

\* ty.tuple_fields()[i]: a panic on a type that is no tuple, or out of range.
TupleFieldAt(t, i) ==
    IF t = Panicked THEN Panicked
    ELSE IF t.kind = "Tuple" THEN Index(t.elems, i)
    ELSE Panicked

\* Some(x), where evaluating x may have panicked.
SomeOf(x) == IF x = Panicked THEN Panicked ELSE Some(x)

\* ExprFnSig::input with the closure arm reading the signature's inputs
\* directly, like the Sig arm.
input_ClosureUntupled(self, i) ==
    CASE self.var = "Sig" ->
            IF self.sig.c_variadic
            THEN Get(self.sig.inputs, i)
            ELSE SomeOf(Index(self.sig.inputs, i))
      [] self.var = "Closure" -> SomeOf(Index(self.sig.inputs, i))
      [] self.var = "Trait" -> SomeOf(TupleFieldAt(self.inputs, i))

\* ExprFnSig::input with the variadic check dropped: every out-of-range
\* ordinal of a concrete signature reads as None.
input_AlwaysGet(self, i) ==
    CASE self.var = "Sig" -> Get(self.sig.inputs, i)
      [] self.var = "Closure" -> SomeOf(TupleFieldAt(Index(self.sig.inputs, 0), i))
      [] self.var = "Trait" -> SomeOf(TupleFieldAt(self.inputs, i))

\* ExprFnSig::input
input(self, i) ==
    CASE self.var = "Sig" ->
            IF self.sig.c_variadic
            THEN Get(self.sig.inputs, i)
            ELSE SomeOf(Index(self.sig.inputs, i))
      [] self.var = "Closure" -> SomeOf(TupleFieldAt(Index(self.sig.inputs, 0), i))
      [] self.var = "Trait" -> SomeOf(TupleFieldAt(self.inputs, i))

\* (hir type as written, type)
WithHir(h, t) == IF t = Panicked THEN Panicked ELSE Some([hir |-> h, ty |-> t])

\* ExprFnSig::input_with_hir
input_with_hir(self, i) ==
    CASE self.var = "Sig" ->
            IF self.sig.c_variadic
            THEN LET a == Get(self.sig.inputs, i) IN
                 IF a.some THEN Some([hir |-> None, ty |-> a.v]) ELSE None
            ELSE WithHir(None, Index(self.sig.inputs, i))
      [] self.var = "Closure" ->
            WithHir(IF self.decl.some THEN Get(self.decl.v, i) ELSE None,
                    TupleFieldAt(Index(self.sig.inputs, 0), i))
      [] self.var = "Trait" -> WithHir(None, TupleFieldAt(self.inputs, i))

\* Predicates.  A trait predicate names the trait, the type it is about and
\* the trait's first type parameter (for a call trait, the argument tuple);
\* a projection predicate names the associated item, the type it is about
\* and the type the item is bound to.
TraitPred(tr, self, args) == [kind |-> "Trait", trait |-> tr, self |-> self, args |-> args]
ProjPred(item, self, term) == [kind |-> "Projection", item |-> item, self |-> self, term |-> term]

\* lang_items.fn_trait() / fn_mut_trait() / fn_once_trait()
IsCallTrait(tr) == tr = "Fn" \/ tr = "FnMut" \/ tr = "FnOnce"

\* A type with the item's own type parameter P replaced: .subst(tcx, substs)
Subst(t, substs) ==
    IF t.kind = "Prim" THEN (IF t.name = "P" THEN substs ELSE t)
    ELSE IF t.kind = "Tuple"
    THEN Tuple([k \in 1..Len(t.elems) |->
                    IF t.elems[k].kind = "Prim" /\ t.elems[k].name = "P"
                    THEN substs ELSE t.elems[k]])
    ELSE t

\* The loop of sig_from_bounds (selfName: the type the bounds must be
\* about) and of sig_for_projection (selfName "" and the projection's
\* substs applied: its item bounds are all about it).  aborted: the loop
\* returned None.
RECURSIVE ScanBounds(_, _, _, _, _, _)
ScanBounds(preds, checkSelf, selfName, substs, inputs, output) ==
    IF preds = <<>> THEN [aborted |-> FALSE, inputs |-> inputs, output |-> output]
    ELSE LET p == Head(preds) IN
         IF /\ p.kind = "Trait"
            /\ IsCallTrait(p.trait)
            /\ checkSelf => p.self = selfName
         THEN LET i == IF checkSelf THEN p.args ELSE Subst(p.args, substs) IN
              IF inputs.some /\ i # inputs.v
              THEN [aborted |-> TRUE, inputs |-> inputs, output |-> output]
              ELSE ScanBounds(Tail(preds), checkSelf, selfName, substs, Some(i), output)
         ELSE IF /\ p.kind = "Projection"
                 /\ p.item = "FnOnceOutput"
                 /\ checkSelf => p.self = selfName
         THEN IF output.some
              THEN [aborted |-> TRUE, inputs |-> inputs, output |-> output]
              ELSE ScanBounds(Tail(preds), checkSelf, selfName, substs, inputs,
                              Some(IF checkSelf THEN p.term ELSE Subst(p.term, substs)))
         ELSE ScanBounds(Tail(preds), checkSelf, selfName, substs, inputs, output)

\* inputs.map(|ty| ExprFnSig::Trait(ty, output, id)), or None from the loop
ScanResult(r, id) ==
    IF r.aborted THEN None
    ELSE IF r.inputs.some THEN Some(TraitV(r.inputs.v, r.output, id))
    ELSE None

sig_from_bounds(t, predicates, predicates_id) ==
    ScanResult(ScanBounds(predicates, TRUE, t.name, Prim("P"), None, None), predicates_id)

sig_for_projection(proj) ==
    ScanResult(ScanBounds(proj.item_bounds, FALSE, "", proj.substs, None, None), None)

\* subs.as_closure().sig(): a closure's signature takes one input, the
\* tuple of its argument types.
ClosureSig(c) == FnSig(<<Tuple(c.args)>>, c.ret, FALSE)

\* bounds.projection_bounds().find(|p| p.item_def_id() is FnOnce::Output)
RECURSIVE FindOutput(_)
FindOutput(ps) ==
    IF ps = <<>> THEN None
    ELSE IF Head(ps).item = "FnOnceOutput" THEN Some(Head(ps).term)
    ELSE FindOutput(Tail(ps))


\* tcx.try_normalize_erasing_regions(param_env, ty): the host fails, hands
\* the projection back unchanged, or resolves it to another type.
try_normalize_erasing_regions(t) ==
    CASE t.normalized.res = "Err" -> None
      [] t.normalized.res = "Same" -> Some(t)
      [] t.normalized.res = "Ok" -> Some(t.normalized.ty)

\* What a call of ty_sig returns and the calls it made on the way to it:
\* the function called and the kind of type it was called on.
Traced(sig, calls) == [sig |-> sig, calls |-> calls]
Call(fn, t) == [fn |-> fn, on |-> t.kind]

\* ty_sig consulting the caller bounds before the projection's declared
\* bounds.
RECURSIVE ty_sig_traced_CallerBoundsFirst(_, _)
ty_sig_traced_CallerBoundsFirst(bounds, t) ==
    IF t.kind = "Box" THEN ty_sig_traced_CallerBoundsFirst(bounds, t.boxed)
    ELSE CASE t.kind = "Closure" -> Traced(Some(ClosureV(t.decl, ClosureSig(t))), <<>>)
           [] t.kind = "FnDef" -> Traced(Some(SigV(t.sig, Some(t.id))), <<>>)
           [] t.kind = "Opaque" ->
                 Traced(sig_from_bounds(t, t.item_bounds, t.parent),
                        <<Call("sig_from_bounds", t)>>)
           [] t.kind = "FnPtr" -> Traced(Some(SigV(t.sig, None)), <<>>)
           [] t.kind = "Dynamic" ->
                 IF t.principal.some /\ IsCallTrait(t.principal.v.trait)
                 THEN Traced(Some(TraitV(t.principal.v.args,
                                         FindOutput(t.projection_bounds), None)), <<>>)
                 ELSE Traced(None, <<>>)
           [] t.kind = "Projection" ->
                 LET n == try_normalize_erasing_regions(t) IN
                 IF n.some /\ n.v # t
                 THEN LET r == ty_sig_traced_CallerBoundsFirst(bounds, n.v) IN
                      Traced(r.sig, <<Call("try_normalize_erasing_regions", t)>> \o r.calls)
                 ELSE LET p == sig_from_bounds(t, bounds, None) IN
                      IF p.some
                      THEN Traced(p, <<Call("try_normalize_erasing_regions", t),
                                       Call("sig_from_bounds", t)>>)
                      ELSE Traced(sig_for_projection(t),
                                  <<Call("try_normalize_erasing_regions", t),
                                    Call("sig_from_bounds", t),
                                    Call("sig_for_projection", t)>>)
           [] t.kind = "Param" ->
                 Traced(sig_from_bounds(t, bounds, None), <<Call("sig_from_bounds", t)>>)
           [] OTHER -> Traced(None, <<>>)

RECURSIVE ty_sig_traced(_, _)
ty_sig_traced(bounds, t) ==
    IF t.kind = "Box" THEN ty_sig_traced(bounds, t.boxed)
    ELSE CASE t.kind = "Closure" -> Traced(Some(ClosureV(t.decl, ClosureSig(t))), <<>>)
           [] t.kind = "FnDef" -> Traced(Some(SigV(t.sig, Some(t.id))), <<>>)
           [] t.kind = "Opaque" ->
                 Traced(sig_from_bounds(t, t.item_bounds, t.parent),
                        <<Call("sig_from_bounds", t)>>)
           [] t.kind = "FnPtr" -> Traced(Some(SigV(t.sig, None)), <<>>)
           [] t.kind = "Dynamic" ->
                 IF t.principal.some /\ IsCallTrait(t.principal.v.trait)
                 THEN Traced(Some(TraitV(t.principal.v.args,
                                         FindOutput(t.projection_bounds), None)), <<>>)
                 ELSE Traced(None, <<>>)
           [] t.kind = "Projection" ->
                 LET n == try_normalize_erasing_regions(t) IN
                 IF n.some /\ n.v # t
                 THEN LET r == ty_sig_traced(bounds, n.v) IN
                      Traced(r.sig, <<Call("try_normalize_erasing_regions", t)>> \o r.calls)
                 ELSE LET p == sig_for_projection(t) IN
                      IF p.some
                      THEN Traced(p, <<Call("try_normalize_erasing_regions", t),
                                       Call("sig_for_projection", t)>>)
                      ELSE Traced(sig_from_bounds(t, bounds, None),
                                  <<Call("try_normalize_erasing_regions", t),
                                    Call("sig_for_projection", t),
                                    Call("sig_from_bounds", t)>>)
           [] t.kind = "Param" ->
                 Traced(sig_from_bounds(t, bounds, None), <<Call("sig_from_bounds", t)>>)
           [] OTHER -> Traced(None, <<>>)

\* ty_sig(cx, ty): the signature alone.
ty_sig(bounds, t) == ty_sig_traced(bounds, t).sig


\* What the queries are handed.
MaxArgs == 2
MaxPreds == 3
ArgTys == {Prim("A"), Prim("B")}
RetTys == {Prim("R")}
SeqsUpTo(S, n) == UNION {[1..k -> S] : k \in 0..n}
ArgLists == SeqsUpTo(ArgTys, MaxArgs)
ArgTuples == {Tuple(a) : a \in ArgLists \ {<<>>}}
FnSigs == {FnSig(a, r, v) : a \in ArgLists, r \in RetTys, v \in BOOLEAN}
FnDefs == {[kind |-> "FnDef", id |-> "f", sig |-> g] : g \in FnSigs}
FnPtrs == {[kind |-> "FnPtr", sig |-> g] : g \in FnSigs}

\* decl.inputs of a local closure: one type as written per argument
HirInputs(a) == [k \in 1..Len(a) |-> [written |-> a[k].name]]
Closures ==
    {[kind |-> "Closure", args |-> a, ret |-> r, decl |-> d] :
        a \in ArgLists, r \in RetTys, d \in {None}} \cup
    {[kind |-> "Closure", args |-> a, ret |-> r, decl |-> Some(HirInputs(a))] :
        a \in ArgLists, r \in RetTys}

\* Predicates about the queried type T or about another type U.
CallTraits == {"Fn", "FnMut", "FnOnce"}
BoundPreds ==
    {TraitPred(tr, "T", a) : tr \in CallTraits, a \in {Tuple(<<Prim("A")>>), Tuple(<<Prim("A"), Prim("B")>>)}}
    \cup {TraitPred("Fn", "U", Tuple(<<Prim("A")>>)), TraitPred("Clone", "T", Tuple(<<>>))}
    \cup {ProjPred("FnOnceOutput", "T", r) : r \in {Prim("R"), Prim("S")}}
    \cup {ProjPred("FnOnceOutput", "U", Prim("R")), ProjPred("IteratorItem", "T", Prim("R"))}

\* The declared bounds of an associated item (explicit_item_bounds, as
\* written: repeats possible), over the item's parameter P.
ItemPreds ==
    {TraitPred(tr, "T", a) : tr \in CallTraits, a \in {Tuple(<<Prim("A")>>), Tuple(<<Prim("P")>>)}}
    \cup {TraitPred("Clone", "T", Tuple(<<>>))}
    \cup {ProjPred("FnOnceOutput", "T", r) : r \in {Prim("A"), Prim("P")}}
    \cup {ProjPred("IteratorItem", "T", Prim("A"))}

Params == {[kind |-> "Param", name |-> "T"]}
Opaques ==
    {[kind |-> "Opaque", name |-> "T", item_bounds |-> <<>>, parent |-> p] :
        p \in {None, Some("parent")}}

DynProjections == {[item |-> "FnOnceOutput", term |-> Prim("R")],
                   [item |-> "FnOnceOutput", term |-> Prim("S")],
                   [item |-> "IteratorItem", term |-> Prim("R")]}
Dynamics ==
    {[kind |-> "Dynamic", principal |-> pr, projection_bounds |-> pb] :
        pr \in {None} \cup {Some([trait |-> tr, args |-> a]) :
                                tr \in CallTraits \cup {"Clone"},
                                a \in {Tuple(<<Prim("A")>>), Tuple(<<Prim("A"), Prim("B")>>)}},
        pb \in SeqsUpTo(DynProjections, MaxPreds - 1)}

Projections ==
    {[kind |-> "Projection", name |-> "T", normalized |-> n, item_bounds |-> <<>>, substs |-> u] :
        n \in {[res |-> "Err"], [res |-> "Same"]} \cup
              {[res |-> "Ok", ty |-> t] :
                    t \in {[kind |-> "FnPtr", sig |-> FnSig(<<Prim("A")>>, Prim("R"), FALSE)],
                           [kind |-> "Param", name |-> "T"], Prim("A")}},
        u \in ArgTys}

Boxes == {[kind |-> "Box", boxed |-> b] : b \in FnPtrs \cup Closures \cup Dynamics \cup {Prim("A")}}

\* The types queried, their bounds yet to be declared.
SigTys == FnDefs \cup FnPtrs \cup Closures \cup Opaques \cup Dynamics \cup Boxes
            \cup Params \cup Projections \cup {Prim("A")}

Ordinals == 0..MaxArgs

NotRun == [run |-> FALSE]
NotAsked == [fn |-> "none"]

SigInit ==
    /\ fnty \in SigTys
    /\ callerBounds = <<>>
    /\ esig = NotRun
    /\ ord = -1
    /\ got = NotAsked

\* p occurs in the list q.
Occurs(p, q) == \E k \in 1..Len(q) : q[k] = p

\* The host's answer to tcx.item_bounds(id) of an opaque type (elaborated: no
\* predicate repeated) or to tcx.bound_explicit_item_bounds(item) of a
\* projection (as declared: repeats possible) gains a predicate.
DeclareItemBound ==
    /\ ~esig.run
    /\ callerBounds = <<>>
    /\ fnty.kind \in {"Opaque", "Projection"}
    /\ Len(fnty.item_bounds) < MaxPreds
    /\ \E p \in BoundPreds \cup ItemPreds :
        /\ fnty.kind = "Opaque" => p \in BoundPreds /\ ~Occurs(p, fnty.item_bounds)
        /\ fnty.kind = "Projection" => p \in ItemPreds
        /\ fnty' = [fnty EXCEPT !.item_bounds = Append(@, p)]
    /\ UNCHANGED <<callerBounds, esig, ord, got>>

\* cx.param_env.caller_bounds() (elaborated: no predicate repeated) gains a
\* predicate.  A projection's declared and caller bounds together number at
\* most MaxPreds.
DeclareCallerBound ==
    /\ ~esig.run
    /\ fnty.kind \in {"Param", "Projection"}
    /\ Len(callerBounds) + (IF fnty.kind = "Projection" THEN Len(fnty.item_bounds) ELSE 0)
            < MaxPreds
    /\ \E p \in BoundPreds :
        /\ ~Occurs(p, callerBounds)
        /\ callerBounds' = Append(callerBounds, p)
    /\ UNCHANGED <<fnty, esig, ord, got>>

TySig ==
    /\ ~esig.run
    /\ LET r == ty_sig_traced(callerBounds, fnty) IN
       esig' = [run |-> TRUE, res |-> r.sig, calls |-> r.calls]
    /\ UNCHANGED <<fnty, callerBounds, ord, got>>

Input ==
    /\ esig.run /\ esig.res.some /\ ord = -1
    /\ \E i \in Ordinals :
        /\ ord' = i
        /\ got' = [fn |-> "input", res |-> input(esig.res.v, i)]
    /\ UNCHANGED <<fnty, callerBounds, esig>>

InputWithHir ==
    /\ esig.run /\ esig.res.some /\ ord = -1
    /\ \E i \in Ordinals :
        /\ ord' = i
        /\ got' = [fn |-> "input_with_hir", res |-> input_with_hir(esig.res.v, i)]
    /\ UNCHANGED <<fnty, callerBounds, esig>>


(***************************************************************************)
(* Trait checks                                                            *)
(***************************************************************************)

\* The outcome of a check: the boolean returned or a panic, and the steps
\* taken on the way.
Checked(res, steps) == [res |-> res, steps |-> steps]

\* tcx.erase_regions(ty)
erase_regions(t) == [t EXCEPT !.regions = FALSE]

\* infcx.type_implements_trait(trait_id, ty, ty_params, param_env): the host's
\* evaluation of the obligation.
type_implements_trait(host, trait_id, t, ty_params) == host.evaluation[trait_id]

\* EvaluationResult::must_apply_modulo_regions
must_apply_modulo_regions(e) == e = "EvaluatedToOk" \/ e = "EvaluatedToOkModuloRegions"

\* implements_trait_with_env as its doc comment words it: false for a type
\* containing an inference variable.
implements_trait_with_env_FalseOnInfer(host, t, trait_id, ty_params) ==
    IF t.needs_infer THEN Checked("false", <<>>)
    ELSE LET e == erase_regions(t) IN
         IF e.has_escaping_bound_vars
         THEN Checked("false", <<"erase_regions">>)
         ELSE Checked(IF must_apply_modulo_regions(type_implements_trait(host, trait_id, e, ty_params))
                      THEN "true" ELSE "false",
                      <<"erase_regions", "infer_ctxt", "type_implements_trait">>)

implements_trait_with_env(host, t, trait_id, ty_params) ==
    IF t.needs_infer THEN Checked("panic", <<"assert">>)
    ELSE LET e == erase_regions(t) IN
         IF e.has_escaping_bound_vars
         THEN Checked("false", <<"assert", "erase_regions">>)
         ELSE Checked(IF must_apply_modulo_regions(type_implements_trait(host, trait_id, e, ty_params))
                      THEN "true" ELSE "false",
                      <<"assert", "erase_regions", "infer_ctxt", "type_implements_trait">>)

\* implements_trait going to the host's evaluation without the check for
\* escaping bound variables.
implements_trait_NoEscapeCheck(host, t, trait_id, ty_params) ==
    IF t.needs_infer THEN Checked("panic", <<"assert">>)
    ELSE Checked(IF must_apply_modulo_regions(
                        type_implements_trait(host, trait_id, erase_regions(t), ty_params))
                 THEN "true" ELSE "false",
                 <<"assert", "erase_regions", "infer_ctxt", "type_implements_trait">>)

implements_trait(host, t, trait_id, ty_params) ==
    implements_trait_with_env(host, t, trait_id, ty_params)

\* tcx.get_diagnostic_item(sym::Debug).map_or(false, ..)
has_debug_impl(host, t) ==
    IF host.debug.some
    THEN implements_trait(host, t, host.debug.v, <<>>)
    ELSE Checked("false", <<>>)

TraitIds == {"Debug", "Clone"}
EvaluationResults == {"EvaluatedToOk", "EvaluatedToOkModuloRegions",
                      "EvaluatedToAmbig", "EvaluatedToErr"}
TraitTys == [needs_infer : BOOLEAN, regions : BOOLEAN, has_escaping_bound_vars : BOOLEAN]
TraitCxs == [debug : {None, Some("Debug")}, evaluation : [TraitIds -> EvaluationResults]]

NotChecked == [fn |-> "none"]

TraitInit ==
    /\ traitCx \in TraitCxs
    /\ traitTy \in TraitTys
    /\ implemented = NotChecked

ImplementsTrait ==
    /\ implemented = NotChecked
    /\ \E trait_id \in TraitIds, ty_params \in {<<>>, <<Prim("A")>>} :
        implemented' = [fn |-> "implements_trait", trait_id |-> trait_id,
                        out |-> implements_trait(traitCx, traitTy, trait_id, ty_params)]
    /\ UNCHANGED <<traitCx, traitTy>>

ImplementsTraitWithEnv ==
    /\ implemented = NotChecked
    /\ \E trait_id \in TraitIds, ty_params \in {<<>>, <<Prim("A")>>} :
        implemented' = [fn |-> "implements_trait_with_env", trait_id |-> trait_id,
                        out |-> implements_trait_with_env(traitCx, traitTy, trait_id, ty_params)]
    /\ UNCHANGED <<traitCx, traitTy>>

HasDebugImpl ==
    /\ implemented = NotChecked
    /\ implemented' = [fn |-> "has_debug_impl", trait_id |-> "Debug",
                       out |-> has_debug_impl(traitCx, traitTy)]
    /\ UNCHANGED <<traitCx, traitTy>>


(***************************************************************************)
(* Primitive types                                                         *)
(***************************************************************************)

\* ty.kind(): a kind without structure, a reference, array or slice of one
\* inner type, or a tuple.
Kind(k) == [kind |-> k]
Wrap(k, t) == [kind |-> k, inner |-> t]

\* is_recursively_primitive_type with the reference arm taking any
\* recursively primitive referent.
RECURSIVE is_recursively_primitive_type_AnyRef(_)
is_recursively_primitive_type_AnyRef(t) ==
    CASE t.kind \in {"Bool", "Char", "Int", "Uint", "Float", "Str"} -> TRUE
      [] t.kind = "Ref" -> is_recursively_primitive_type_AnyRef(t.inner)
      [] t.kind \in {"Array", "Slice"} -> is_recursively_primitive_type_AnyRef(t.inner)
      [] t.kind = "Tuple" ->
            \A k \in 1..Len(t.elems) : is_recursively_primitive_type_AnyRef(t.elems[k])
      [] OTHER -> FALSE

RECURSIVE is_recursively_primitive_type(_)
is_recursively_primitive_type(t) ==
    CASE t.kind \in {"Bool", "Char", "Int", "Uint", "Float", "Str"} -> TRUE
      [] t.kind = "Ref" /\ t.inner.kind = "Str" -> TRUE
      [] t.kind \in {"Array", "Slice"} -> is_recursively_primitive_type(t.inner)
      [] t.kind = "Tuple" ->
            \A k \in 1..Len(t.elems) : is_recursively_primitive_type(t.elems[k])
      [] OTHER -> FALSE

\* The types handed in are built bottom up, MaxNodes kinds in all.
MaxNodes == 4
LeafKinds == {"Bool", "Char", "Int", "Uint", "Float", "Str", "Adt"}
WrapKinds == {"Ref", "Array", "Slice"}

RECURSIVE Nodes(_)
RECURSIVE NodesOfAll(_)
Nodes(t) ==
    IF t.kind \in WrapKinds THEN 1 + Nodes(t.inner)
    ELSE IF t.kind = "Tuple" THEN 1 + NodesOfAll(t.elems)
    ELSE 1
NodesOfAll(ts) == IF ts = <<>> THEN 0 ELSE Nodes(Head(ts)) + NodesOfAll(Tail(ts))

NotTested == [done |-> FALSE]

PrimInit == primStack = <<>> /\ primitive = NotTested

\* A kind without structure.
DeclareLeaf ==
    /\ ~primitive.done
    /\ NodesOfAll(primStack) < MaxNodes
    /\ \E k \in LeafKinds : primStack' = Append(primStack, Kind(k))
    /\ UNCHANGED primitive

\* A reference to, an array of or a slice of the last type built.
DeclareWrap ==
    /\ ~primitive.done
    /\ primStack # <<>>
    /\ NodesOfAll(primStack) < MaxNodes
    /\ \E k \in WrapKinds :
        primStack' = [primStack EXCEPT ![Len(primStack)] = Wrap(k, @)]
    /\ UNCHANGED primitive

\* The tuple of the last n types built.
DeclareTuple ==
    /\ ~primitive.done
    /\ NodesOfAll(primStack) < MaxNodes
    /\ \E n \in 0..Len(primStack) :
        primStack' = Append(SubSeq(primStack, 1, Len(primStack) - n),
                            [kind |-> "Tuple",
                             elems |-> SubSeq(primStack, Len(primStack) - n + 1, Len(primStack))])
    /\ UNCHANGED primitive

IsRecursivelyPrimitiveType ==
    /\ ~primitive.done
    /\ Len(primStack) = 1
    /\ primitive' = [done |-> TRUE, res |-> is_recursively_primitive_type(primStack[1])]
    /\ UNCHANGED primStack


(***************************************************************************)
(* Specifications: one per family of queries; the variables of the other   *)
(* families stay idle.                                                     *)
(***************************************************************************)

DiscrIdle == adt = <<>> /\ vidx = 0 /\ discr = NoValue
TyIdle == tcx = <<>> /\ ty = 0 /\ norm = NoOutcome /\ drop = NoOutcome /\ size = NoOutcome
PeelIdle == pty = <<>> /\ peeled = NotPeeled
SigIdle == fnty = Prim("A") /\ callerBounds = <<>> /\ esig = NotRun /\ ord = -1 /\ got = NotAsked
TraitIdle == traitCx = <<>> /\ traitTy = <<>> /\ implemented = NotChecked
PrimIdle == primStack = <<>> /\ primitive = NotTested
ConstIdle == konst = <<>> /\ enumValue = NotRead

SpecDiscrInit == DiscrInit /\ TyIdle /\ PeelIdle /\ SigIdle /\ TraitIdle /\ PrimIdle /\ ConstIdle
SpecDiscrNext == GetDiscriminantValue /\ UNCHANGED <<tyVars, peelVars, sigVars, traitVars, primVars, constVars>>
SpecDiscr == SpecDiscrInit /\ [][SpecDiscrNext]_vars

SpecTyInit == TyInit /\ DiscrIdle /\ PeelIdle /\ SigIdle /\ TraitIdle /\ PrimIdle /\ ConstIdle
SpecTyNext ==
    \/ DeclareNormType /\ UNCHANGED <<discrVars, peelVars, sigVars, traitVars, primVars, constVars>>
    \/ DeclareDropType /\ UNCHANGED <<discrVars, peelVars, sigVars, traitVars, primVars, constVars>>
    \/ IsNormalizable /\ UNCHANGED <<discrVars, peelVars, sigVars, traitVars, primVars, constVars>>
    \/ NeedsOrderedDrop /\ UNCHANGED <<discrVars, peelVars, sigVars, traitVars, primVars, constVars>>
SpecTy == SpecTyInit /\ [][SpecTyNext]_vars

SpecSizeInit == TyInit /\ DiscrIdle /\ PeelIdle /\ SigIdle /\ TraitIdle /\ PrimIdle /\ ConstIdle
SpecSizeNext ==
    \/ DeclareSizeType /\ UNCHANGED <<discrVars, peelVars, sigVars, traitVars, primVars, constVars>>
    \/ ApproxTySize /\ UNCHANGED <<discrVars, peelVars, sigVars, traitVars, primVars, constVars>>
SpecSize == SpecSizeInit /\ [][SpecSizeNext]_vars

SpecPeelInit == PeelInit /\ DiscrIdle /\ TyIdle /\ SigIdle /\ TraitIdle /\ PrimIdle /\ ConstIdle
SpecPeelNext ==
    \/ PeelMidTyRefs /\ UNCHANGED <<discrVars, tyVars, sigVars, traitVars, primVars, constVars>>
    \/ PeelMidTyRefsIsMutable /\ UNCHANGED <<discrVars, tyVars, sigVars, traitVars, primVars, constVars>>
    \/ WalkPtrsTyDepth /\ UNCHANGED <<discrVars, tyVars, sigVars, traitVars, primVars, constVars>>
SpecPeel == SpecPeelInit /\ [][SpecPeelNext]_vars

SpecSigInit == SigInit /\ DiscrIdle /\ TyIdle /\ PeelIdle /\ TraitIdle /\ PrimIdle /\ ConstIdle
SpecSigNext ==
    \/ DeclareItemBound /\ UNCHANGED <<discrVars, tyVars, peelVars, traitVars, primVars, constVars>>
    \/ DeclareCallerBound /\ UNCHANGED <<discrVars, tyVars, peelVars, traitVars, primVars, constVars>>
    \/ TySig /\ UNCHANGED <<discrVars, tyVars, peelVars, traitVars, primVars, constVars>>
    \/ Input /\ UNCHANGED <<discrVars, tyVars, peelVars, traitVars, primVars, constVars>>
    \/ InputWithHir /\ UNCHANGED <<discrVars, tyVars, peelVars, traitVars, primVars, constVars>>
SpecSig == SpecSigInit /\ [][SpecSigNext]_vars

SpecTraitInit == TraitInit /\ DiscrIdle /\ TyIdle /\ PeelIdle /\ SigIdle /\ PrimIdle /\ ConstIdle
SpecTraitNext ==
    \/ ImplementsTrait /\ UNCHANGED <<discrVars, tyVars, peelVars, sigVars, primVars, constVars>>
    \/ ImplementsTraitWithEnv /\ UNCHANGED <<discrVars, tyVars, peelVars, sigVars, primVars, constVars>>
    \/ HasDebugImpl /\ UNCHANGED <<discrVars, tyVars, peelVars, sigVars, primVars, constVars>>
SpecTrait == SpecTraitInit /\ [][SpecTraitNext]_vars

SpecPrimInit == PrimInit /\ DiscrIdle /\ TyIdle /\ PeelIdle /\ SigIdle /\ TraitIdle /\ ConstIdle
SpecPrimNext ==
    \/ DeclareLeaf /\ UNCHANGED <<discrVars, tyVars, peelVars, sigVars, traitVars, constVars>>
    \/ DeclareWrap /\ UNCHANGED <<discrVars, tyVars, peelVars, sigVars, traitVars, constVars>>
    \/ DeclareTuple /\ UNCHANGED <<discrVars, tyVars, peelVars, sigVars, traitVars, constVars>>
    \/ IsRecursivelyPrimitiveType /\ UNCHANGED <<discrVars, tyVars, peelVars, sigVars, traitVars, constVars>>
SpecPrim == SpecPrimInit /\ [][SpecPrimNext]_vars

SpecConstInit == ConstInit /\ DiscrIdle /\ TyIdle /\ PeelIdle /\ SigIdle /\ TraitIdle /\ PrimIdle
SpecConstNext ==
    ReadExplicitEnumValue /\ UNCHANGED <<discrVars, tyVars, peelVars, sigVars, traitVars, primVars>>
SpecConst == SpecConstInit /\ [][SpecConstNext]_vars


(***************************************************************************)
(* Properties of the enum discriminant queries                             *)
(***************************************************************************)

\* The variant queried declares Relative(x).
QueriedRelative == vidx # 0 /\ adt.variants[vidx].kind = "Relative"

\* C1 as stated: for a variant declaring Relative(x), get_discriminant_value
\* returns the resolved value of the variant at index i - x plus x, tagged
\* with the signedness of the enum's representation, also when the enum has
\* no explicit discriminant.
C1_RelativeHasReprTag ==
    QueriedRelative =>
        LET x == adt.variants[vidx].x IN
        /\ discr.tag = ReprTag(adt)
        /\ IntOf(discr) = IntOf(get_discriminant_value(adt, vidx - x)) + x

\* C1 amended: for a variant declaring Relative(x) whose ancestor at i - x is
\* explicit, the result is the ancestor's value read in the enum's
\* representation plus x, tagged with the representation's signedness; when
\* the ancestor is itself Relative (no explicit discriminant) the result is
\* Unsigned(x) whatever the representation.
C1_RelativeResolves ==
    QueriedRelative =>
        LET x == adt.variants[vidx].x
            anc == adt.variants[vidx - x]
        IN IF anc.kind = "Explicit"
           THEN /\ discr.tag = ReprTag(adt)
                /\ IntOf(discr) = ExplicitValue(adt, anc.c) + x
           ELSE discr = Unsigned(U128(x))

\* A signed enum whose explicit ancestor is negative, queried at a later
\* implicit variant.
C1_Witness ==
    /\ QueriedRelative
    /\ adt.signed
    /\ LET x == adt.variants[vidx].x
           anc == adt.variants[vidx - x]
       IN /\ x >= 1
          /\ anc.kind = "Explicit"
          /\ ExplicitValue(adt, anc.c) < 0
          /\ discr.tag = "Signed"

(***************************************************************************)
(* Properties of the type-graph queries                                    *)
(***************************************************************************)

NoDuplicates(q) == \A i, j \in 1..Len(q) : q[i] = q[j] => i = j

\* C2: on every type graph, cyclic ones included, is_normalizable and
\* needs_ordered_drop return a boolean without the traversal running away,
\* and no type is expanded (passes the cache or seen-set check) more than
\* once in a top-level call.
C2_ProbesTerminate ==
    /\ norm.done =>
          /\ ~norm.diverged
          /\ norm.res \in BOOLEAN
          /\ NoDuplicates(norm.expanded)
          /\ Len(norm.expanded) <= Len(tcx)
    /\ drop.done =>
          /\ ~drop.diverged
          /\ drop.res \in BOOLEAN
          /\ NoDuplicates(drop.expanded)
          /\ Len(drop.expanded) <= Len(tcx)

\* Both queries have run on a type that both traversals met again while it
\* was being expanded, after expanding another type.
C2_Witness ==
    /\ norm.done /\ drop.done
    /\ ty \in norm.reentered
    /\ ty \in drop.revisited
    /\ Len(norm.expanded) >= 2
    /\ Len(drop.expanded) >= 2

\* The types the normalizability probe goes to from a type: the fields of
\* every variant of an Adt, the walked generic-argument types of any other
\* type (the type itself left out).
ProbeEdges(cx, t) ==
    IF cx[t].kind = "Adt"
    THEN {all_fields(cx, t)[k] : k \in 1..Len(all_fields(cx, t))}
    ELSE {walk(cx, t)[k] : k \in 1..Len(walk(cx, t))} \ {t}

\* The types reached from those of S in at most n probe steps.
RECURSIVE ProbeReach(_, _, _)
ProbeReach(cx, S, n) ==
    IF n = 0 THEN S
    ELSE ProbeReach(cx, S \cup UNION {ProbeEdges(cx, t) : t \in S}, n - 1)

\* C14: is_normalizable returns true only if host normalization succeeds for
\* the type and for every type the probe reaches from it; a type looked up
\* while its own evaluation is in progress reads as not normalizable and ends
\* cached so; and every type cached true reaches only types that normalize
\* and that were never read while in progress.
C14_NoFalsePositive ==
    norm.done =>
        /\ norm.res => \A u \in ProbeReach(tcx, {ty}, Len(tcx)) : tcx[u].normOk
        /\ \A t \in norm.reentered : norm.cache[t] = "false"
        /\ \A t \in Types(tcx) :
                norm.cache[t] = "true" =>
                    \A u \in ProbeReach(tcx, {t}, Len(tcx)) :
                        tcx[u].normOk /\ u \notin norm.reentered

\* A type cached true by a probe that read another type while in progress
\* and found the root not normalizable.
C14_Witness ==
    /\ norm.done
    /\ ~norm.res
    /\ norm.reentered # {}
    /\ \E t \in Types(tcx) : norm.cache[t] = "true"

\* The types the drop traversal goes to from a type: nowhere from a type
\* without a significant drop; the generic type arguments of an
\* allocation-only wrapper; the elements of a tuple, the element of an array
\* and all fields of an Adt that do not implement Drop.
DropEdges(cx, t) ==
    IF ~cx[t].sigDrop THEN {}
    ELSE IF IsAllocWrapper(cx, t) THEN {cx[t].args[k] : k \in 1..Len(cx[t].args)}
    ELSE IF cx[t].implDrop THEN {}
    ELSE IF cx[t].kind \in {"Tuple", "Array"} THEN {cx[t].args[k] : k \in 1..Len(cx[t].args)}
    ELSE IF cx[t].kind = "Adt" THEN {all_fields(cx, t)[k] : k \in 1..Len(all_fields(cx, t))}
    ELSE {}

RECURSIVE DropReach(_, _, _)
DropReach(cx, S, n) ==
    IF n = 0 THEN S
    ELSE DropReach(cx, S \cup UNION {DropEdges(cx, t) : t \in S}, n - 1)

\* A type with a significant drop that is no allocation-only wrapper and
\* either implements Drop or has no structure to recurse into.
OrderedByItself(cx, t) ==
    /\ cx[t].sigDrop
    /\ ~IsAllocWrapper(cx, t)
    /\ cx[t].implDrop \/ cx[t].kind \notin {"Tuple", "Array", "Adt"}

\* C15: needs_ordered_drop(ty) is true exactly when some type reachable from
\* ty along the edges the traversal follows has a significant drop and is a
\* non-wrapper type implementing Drop or a type with no further structure;
\* answering false for a revisited type never changes that.
C15_RevisitsChangeNothing ==
    drop.done =>
        (drop.res <=> \E u \in DropReach(tcx, {ty}, Len(tcx)) : OrderedByItself(tcx, u))

\* A true answer found after the traversal met a type again.
C15_Witness ==
    /\ drop.done
    /\ drop.res
    /\ drop.revisited # {}

\* C16: for an allocation-only wrapper with a significant drop,
\* needs_ordered_drop is true exactly when it is true of one of the wrapper's
\* generic type arguments; the traversal expands nothing it reaches through
\* the wrapper's fields only, and a wrapper without type arguments is not
\* significant although it implements Drop.
C16_WrapperByArgsOnly ==
    (drop.done /\ IsAllocWrapper(tcx, ty) /\ tcx[ty].sigDrop) =>
        /\ drop.res <=> \E k \in 1..Len(tcx[ty].args) :
                            needs_ordered_drop(tcx, tcx[ty].args[k]).res
        /\ tcx[ty].args = <<>> => ~drop.res /\ drop.expanded = <<ty>>
        /\ \A k \in 1..Len(drop.expanded) :
                drop.expanded[k] \in DropReach(tcx, {ty}, Len(tcx))

\* A wrapper implementing Drop with a field that is significant by itself
\* and a type argument that is not, found not significant.
C16_Witness ==
    /\ drop.done
    /\ IsAllocWrapper(tcx, ty) /\ tcx[ty].sigDrop /\ tcx[ty].implDrop
    /\ Len(tcx[ty].args) = 1
    /\ \E k \in 1..Len(all_fields(tcx, ty)) : OrderedByItself(tcx, all_fields(tcx, ty)[k])
    /\ ~drop.res

RECURSIVE SeqSum(_)
SeqSum(q) == IF q = <<>> THEN 0 ELSE Head(q) + SeqSum(Tail(q))

RECURSIVE SeqMax(_)
SeqMax(q) == IF q = <<>> THEN 0 ELSE Max(Head(q), SeqMax(Tail(q)))

\* The size approx_ty_size gives each type of a list, asked on its own.
SizesOf(ts) == [i \in 1..Len(ts) |-> approx_ty_size(tcx, ts[i]).size]

\* The sum of the field sizes of each variant.
VariantSums(t) == [v \in 1..Len(tcx[t].variants) |-> SeqSum(SizesOf(tcx[t].variants[v]))]

\* C3: for a normalizable type whose layout fails, the estimate of a struct
\* is the sum of the estimates of its fields and the estimate of an enum is
\* the largest per-variant sum of field estimates (0 without variants); when
\* the layout succeeds its size is returned and approx_ty_size is called on
\* no other type.
C3_SizeByFields ==
    (size.done /\ is_normalizable(tcx, ty).res) =>
        IF tcx[ty].layout.some
        THEN /\ size.size = tcx[ty].layout.v
             /\ size.calls = <<[ty |-> ty, size |-> size.size]>>
        ELSE /\ (tcx[ty].kind = "Adt" /\ tcx[ty].adt = "struct") =>
                    size.size = SeqSum(SizesOf(all_fields(tcx, ty)))
             /\ (tcx[ty].kind = "Adt" /\ tcx[ty].adt = "enum") =>
                    size.size = SeqMax(VariantSums(ty))

\* An enum whose layout fails, with two variants of different non-zero
\* sizes, the first the larger.
C3_Witness ==
    /\ size.done
    /\ is_normalizable(tcx, ty).res
    /\ ~tcx[ty].layout.some
    /\ tcx[ty].kind = "Adt" /\ tcx[ty].adt = "enum"
    /\ Len(tcx[ty].variants) = 2
    /\ VariantSums(ty)[1] > VariantSums(ty)[2]
    /\ VariantSums(ty)[2] > 0
    /\ size.size = VariantSums(ty)[1]

\* C4: a call of approx_ty_size on a type is_normalizable rejects returns 0
\* and never hands that type to layout_of, at the top level and at every
\* level of the recursion.
C4_NonNormalizableIsZero ==
    size.done =>
        /\ ~size.diverged
        /\ \A k \in 1..Len(size.calls) :
              ~is_normalizable(tcx, size.calls[k].ty).res =>
                  /\ size.calls[k].size = 0
                  /\ \A m \in 1..Len(size.layoutOf) : size.layoutOf[m] # size.calls[k].ty
        /\ ~is_normalizable(tcx, ty).res =>
              /\ size.size = 0
              /\ size.layoutOf = <<>>
              /\ size.calls = <<[ty |-> ty, size |-> 0]>>

\* A type that normalizes itself but has a field that does not: the estimate
\* is 0 and layout_of was never asked.
C4_Witness ==
    /\ size.done
    /\ tcx[ty].normOk
    /\ tcx[ty].kind = "Adt"
    /\ \E i \in 1..Len(all_fields(tcx, ty)) : ~tcx[all_fields(tcx, ty)[i]].normOk
    /\ ~is_normalizable(tcx, ty).res
    /\ size.size = 0
    /\ size.layoutOf = <<>>

\* A type reaches itself through the graph the probe traverses.
SelfReaching(cx, t) == t \in ProbeReach(cx, ProbeEdges(cx, t), Len(cx))

\* C18: is_normalizable returns false for every type that reaches itself
\* through the fields and walked generic arguments the probe traverses, and
\* approx_ty_size of such a type is 0 without layout_of being asked; when
\* host normalization succeeds for every type reached, the false comes from
\* a type read while in progress and every type that ends cached false is
\* one from which a type read in progress is reached.
C18_SelfRecursiveIsZero ==
    (size.done /\ SelfReaching(tcx, ty)) =>
        LET r == is_normalizable(tcx, ty) IN
        /\ ~r.res
        /\ r.st.cache[ty] = "false"
        /\ size.size = 0
        /\ size.layoutOf = <<>>
        /\ (\A u \in ProbeReach(tcx, {ty}, Len(tcx)) : tcx[u].normOk) =>
              /\ r.st.reentered # {}
              /\ \A u \in Types(tcx) :
                    r.st.cache[u] = "false" =>
                        ProbeReach(tcx, {u}, Len(tcx)) \cap r.st.reentered # {}

\* A type the host normalizes and lays out, reaching itself through another
\* such type: the estimate is 0.
C18_Witness ==
    /\ size.done
    /\ \A u \in Types(tcx) : tcx[u].normOk /\ tcx[u].layout.some
    /\ ty \notin ProbeEdges(tcx, ty)
    /\ SelfReaching(tcx, ty)
    /\ size.size = 0

(***************************************************************************)
(* Properties of the reference-peeling helpers                             *)
(***************************************************************************)

\* The number of reference layers at the outside of a type.
NRefs(t) ==
    CHOOSE n \in 0..Len(t) :
        /\ \A i \in 1..n : t[i] \in RefLayers
        /\ n = Len(t) \/ t[n + 1] \notin RefLayers

\* C5: peel_mid_ty_refs_is_mutable reports Not exactly when one of the
\* reference layers it peeled, at any depth, is an immutable reference;
\* with no reference layer or only mutable ones it reports Mut.
C5_NotIffSomeImmutableLayer ==
    peeled.fn = "peel_mid_ty_refs_is_mutable" =>
        /\ peeled.mutability \in {"Mut", "Not"}
        /\ peeled.mutability = "Not" <=> \E i \in 1..NRefs(pty) : pty[i] = "RefNot"

\* An immutable reference to a mutable reference: the deeper mutable layer
\* does not turn the answer back to Mut.
C5_Witness ==
    /\ peeled.fn = "peel_mid_ty_refs_is_mutable"
    /\ Len(pty) >= 2
    /\ pty[1] = "RefNot" /\ pty[2] = "RefMut"
    /\ peeled.mutability = "Not"

Arity(s) ==
    CASE s.var = "Sig" -> Len(s.sig.inputs)
      [] s.var = "Closure" -> Len(s.sig.inputs[1].elems)
      [] s.var = "Trait" -> Len(s.inputs.elems)

ArgAt(s, i) ==
    CASE s.var = "Sig" -> s.sig.inputs[i + 1]
      [] s.var = "Closure" -> s.sig.inputs[1].elems[i + 1]
      [] s.var = "Trait" -> s.inputs.elems[i + 1]

IsVariadic(s) == s.var = "Sig" /\ s.sig.c_variadic

\* C7: input(i) and input_with_hir(i) return Some of the i-th argument type
\* for every in-range ordinal; for an out-of-range ordinal they return None
\* when the signature is a variadic concrete function signature and panic
\* for every other signature (non-variadic function, closure, trait bound).
C7_NoneOnlyForVariadic ==
    got.fn \in {"input", "input_with_hir"} =>
        LET s == esig.res.v IN
        /\ ord < Arity(s) =>
            /\ got.res # Panicked /\ got.res.some
            /\ got.fn = "input" => got.res.v = ArgAt(s, ord)
            /\ got.fn = "input_with_hir" => got.res.v.ty = ArgAt(s, ord)
        /\ ord >= Arity(s) /\ IsVariadic(s) => got.res = None
        /\ ord >= Arity(s) /\ ~IsVariadic(s) => got.res = Panicked

\* An out-of-range ordinal asked of a variadic function with an argument.
C7_Witness ==
    /\ got.fn = "input"
    /\ IsVariadic(esig.res.v)
    /\ Arity(esig.res.v) = 1
    /\ ord = 2
    /\ got.res = None

\* The call-trait argument tuples and the output bindings a scan meets:
\* those about the type (sig_from_bounds), or all of a projection's declared
\* bounds with its substs applied (sig_for_projection).
ScannedArgs(preds, checkSelf, substs) ==
    {IF checkSelf THEN preds[k].args ELSE Subst(preds[k].args, substs) :
        k \in {k \in 1..Len(preds) :
                /\ preds[k].kind = "Trait" /\ IsCallTrait(preds[k].trait)
                /\ checkSelf => preds[k].self = "T"}}

ScannedOutputs(preds, checkSelf, substs) ==
    {IF checkSelf THEN preds[k].term ELSE Subst(preds[k].term, substs) :
        k \in {k \in 1..Len(preds) :
                /\ preds[k].kind = "Projection" /\ preds[k].item = "FnOnceOutput"
                /\ checkSelf => preds[k].self = "T"}}

ConflictsAbort(res, args, outs, id) ==
    /\ (Cardinality(args) > 1 \/ Cardinality(outs) > 1) => res = None
    /\ (Cardinality(args) = 1 /\ Cardinality(outs) <= 1) =>
        res = Some(TraitV(CHOOSE a \in args : TRUE,
                          IF outs = {} THEN None ELSE Some(CHOOSE o \in outs : TRUE),
                          id))

\* C8: sig_from_bounds and sig_for_projection report None when the call-trait
\* bounds met differ in their argument tuples or the output bindings met
\* differ; bounds that agree with each other do not abort the scan, which
\* then reports the one argument tuple and the one output they agree on.
C8_OnlyConflictsAbort ==
    esig.run =>
        /\ fnty.kind = "Param" =>
            ConflictsAbort(esig.res, ScannedArgs(callerBounds, TRUE, Prim("P")),
                           ScannedOutputs(callerBounds, TRUE, Prim("P")), None)
        /\ fnty.kind = "Opaque" =>
            ConflictsAbort(esig.res, ScannedArgs(fnty.item_bounds, TRUE, Prim("P")),
                           ScannedOutputs(fnty.item_bounds, TRUE, Prim("P")), fnty.parent)
        /\ (fnty.kind = "Projection" /\ fnty.normalized.res # "Ok" /\ callerBounds = <<>>) =>
            ConflictsAbort(esig.res, ScannedArgs(fnty.item_bounds, FALSE, fnty.substs),
                           ScannedOutputs(fnty.item_bounds, FALSE, fnty.substs), None)

\* The concrete function taking a closure's arguments.
FnDefLike(c) == [kind |-> "FnDef", id |-> "f", sig |-> FnSig(c.args, c.ret, FALSE)]

\* C9: for a one-argument closure, input(0) of ty_sig's signature is the
\* closure's argument type, equal to input(0) of the signature ty_sig gives
\* the concrete one-argument function of the same argument type.
C9_ClosureReadsLikeFn ==
    (fnty.kind = "Closure" /\ Len(fnty.args) = 1 /\ got.fn = "input" /\ ord = 0) =>
        /\ got.res = input(ty_sig(callerBounds, FnDefLike(fnty)).v, 0)
        /\ got.res = Some(fnty.args[1])

\* input(0) asked of a one-argument closure's signature.
C9_Witness ==
    /\ fnty.kind = "Closure" /\ fnty.args = <<Prim("B")>>
    /\ esig.run /\ esig.res.v.var = "Closure"
    /\ got.fn = "input" /\ ord = 0
    /\ got.res = Some(Prim("B"))


\* The fallbacks of the projection arm: calls on the projection itself.
FallbackCalls ==
    {k \in 1..Len(esig.calls) :
        /\ esig.calls[k].on = "Projection"
        /\ esig.calls[k].fn \in {"sig_for_projection", "sig_from_bounds"}}

NormalizeFirst ==
    /\ esig.calls # <<>>
    /\ esig.calls[1] = [fn |-> "try_normalize_erasing_regions", on |-> "Projection"]

\* Both fallbacks in order: the declared bounds, then, only if they yield no
\* signature, the caller bounds.
FallbacksInOrder ==
    IF sig_for_projection(fnty).some
    THEN /\ esig.res = sig_for_projection(fnty)
         /\ esig.calls = <<Call("try_normalize_erasing_regions", fnty),
                           Call("sig_for_projection", fnty)>>
    ELSE /\ esig.res = sig_from_bounds(fnty, callerBounds, None)
         /\ esig.calls = <<Call("try_normalize_erasing_regions", fnty),
                           Call("sig_for_projection", fnty),
                           Call("sig_from_bounds", fnty)>>

\* C17 as stated: for a projection ty_sig normalizes first; only if
\* normalization fails are the fallbacks consulted, the declared bounds and
\* then the caller bounds; when normalization succeeds no fallback is
\* consulted.
C17_FallbacksOnlyOnFailure ==
    (esig.run /\ fnty.kind = "Projection") =>
        /\ NormalizeFirst
        /\ fnty.normalized.res = "Err" => FallbacksInOrder
        /\ fnty.normalized.res # "Err" => FallbackCalls = {}

\* C17 amended: for a projection ty_sig normalizes first; when normalization
\* yields a different type its signature is returned and no fallback is
\* consulted; when normalization fails or hands the projection back
\* unchanged the fallbacks are consulted, the declared bounds and then, only
\* if they yield no signature, the caller bounds.
C17_FallbacksUnlessResolved ==
    (esig.run /\ fnty.kind = "Projection") =>
        /\ NormalizeFirst
        /\ fnty.normalized.res = "Ok" =>
                /\ FallbackCalls = {}
                /\ esig.res = ty_sig(callerBounds, fnty.normalized.ty)
        /\ fnty.normalized.res # "Ok" => FallbacksInOrder

\* A projection normalization hands back unchanged, its declared bounds
\* yielding no signature and the caller bounds giving one.
C17_Witness ==
    /\ esig.run /\ fnty.kind = "Projection"
    /\ fnty.normalized.res = "Same"
    /\ fnty.item_bounds # <<>>
    /\ Len(esig.calls) = 3
    /\ esig.res.some


(***************************************************************************)
(* Properties of the trait checks                                          *)
(***************************************************************************)

IsRefToStr(t) == t.kind = "Ref" /\ t.inner.kind = "Str"

\* What C12 says of a type: a scalar or str; or an array, slice or tuple
\* whose every element type is such a type or a reference to str; nothing
\* else.
RECURSIVE StatedPrimitive(_)
StatedPrimitive(t) ==
    CASE t.kind \in {"Bool", "Char", "Int", "Uint", "Float", "Str"} -> TRUE
      [] t.kind \in {"Array", "Slice"} -> StatedPrimitive(t.inner) \/ IsRefToStr(t.inner)
      [] t.kind = "Tuple" ->
            \A k \in 1..Len(t.elems) : StatedPrimitive(t.elems[k]) \/ IsRefToStr(t.elems[k])
      [] OTHER -> FALSE

\* C12 as stated: is_recursively_primitive_type holds for the scalars and
\* str, for an array, slice or tuple exactly when every element type is
\* recursively primitive or a reference to str, and is false for every other
\* type.
C12_PrimitiveAsStated ==
    primitive.done => (primitive.res <=> StatedPrimitive(primStack[1]))

\* C12 amended: is_recursively_primitive_type holds for the scalars, for str
\* and for a reference to str itself; for an array, slice or tuple exactly
\* when it holds for every element type (the empty tuple holds); and is
\* false for every other type, a reference to anything but str included.
C12_PrimitiveWithStrRef ==
    primitive.done =>
        (primitive.res <=> (StatedPrimitive(primStack[1]) \/ IsRefToStr(primStack[1])))

\* A tuple of an array of references to str, found primitive.
C12_Witness ==
    /\ primitive.done /\ primitive.res
    /\ primStack[1].kind = "Tuple" /\ Len(primStack[1].elems) = 1
    /\ primStack[1].elems[1].kind = "Array"
    /\ IsRefToStr(primStack[1].elems[1].inner)

(***************************************************************************)
(* Properties of the explicit constants                                    *)
(***************************************************************************)

\* v is the stored bits of the constant in its low bytes and b in every byte
\* above the constant's width.
ExtendsWith(v, b) ==
    /\ Len(v) = 16
    /\ \A k \in 1..16 : v[k] = IF k <= konst.size THEN konst.bits[k] ELSE b

\* C13: for a constant evaluating to an integer scalar of a signed integer
\* type 1, 2, 4, 8 or 16 bytes wide read_explicit_enum_value returns Signed
\* of the stored bits sign-extended to 128 bits; of an unsigned integer type
\* of those widths, Unsigned of the bits zero-extended; for any other width,
\* any other type, or a constant that does not evaluate to an integer scalar,
\* None.
C13_ReadsWidthAndSign ==
    enumValue.done =>
        IF konst.ok /\ konst.kind \in {"Int", "Uint"} /\ konst.size \in {1, 2, 4, 8, 16}
        THEN /\ enumValue.res.some
             /\ konst.kind = "Int" =>
                    /\ enumValue.res.v.tag = "Signed"
                    /\ ExtendsWith(enumValue.res.v.val,
                                   IF konst.bits[konst.size] >= 128 THEN 255 ELSE 0)
             /\ konst.kind = "Uint" =>
                    /\ enumValue.res.v.tag = "Unsigned"
                    /\ ExtendsWith(enumValue.res.v.val, 0)
        ELSE enumValue.res = None

\* A negative 8-byte signed constant with a positive low half, read.
C13_Witness ==
    /\ enumValue.done
    /\ konst.ok /\ konst.kind = "Int" /\ konst.size = 8
    /\ konst.bits[8] = 128 /\ konst.bits[4] = 0
    /\ enumValue.res = Some(Signed(SubSeq(konst.bits, 1, 8) \o Fill(255, 8)))

====
